---- MODULE Spec2Model ----
(***************************************************************************)
(* Model of mensa-bot: the /mensa command pipeline (date resolution,       *)
(* availability lookup, rendering) of src/src/commands.rs, and the         *)
(* one-time slash command registration (ready handler of src/src/main.rs   *)
(* and the cancellable retry task of commands::register).                  *)
(*                                                                         *)
(* Dates are day numbers; day 0 is a Monday.  Times of day are small       *)
(* naturals.                                                               *)
(***************************************************************************)
EXTENDS Integers, Sequences, FiniteSets, TLC

\* ------------------------------------------------------------------ bounds
MaxToday == 1
MaxTime == 1
MaxDate == 3
MaxAvail == 2
MaxLines == 1
MaxMeals == 2
MaxReady == 2
MaxFails == 4

NoDate == 0 - 1

\* ------------------------------------------------------------- data model
DayTokens ==
  {"today", "tomorrow", "dayaftertomorrow", "monday", "tuesday", "wednesday",
   "thursday", "friday"}

\* values a client can put into the "tag" option; "sunday" is not a choice
TagValues == DayTokens \cup {"sunday"}

NoTag == "-"

Interactions ==
  {[kind |-> "other", name |-> "-", tag |-> NoTag]}
    \cup {[kind |-> "command", name |-> "ping", tag |-> NoTag]}
    \cup {[kind |-> "command", name |-> "mensa", tag |-> t] :
            t \in TagValues \cup {NoTag}}

NoInteraction == [kind |-> "-", name |-> "-", tag |-> NoTag]

SeqsUpTo(S, n) == UNION {[1..k -> S] : k \in 0..n}

Meals == [name : {"Gulasch"}, price : {"", "3,50"}]

Lines == [name : {"Linie 1"}, meals : SeqsUpTo(Meals, MaxMeals)]

CanteenLines == SeqsUpTo(Lines, MaxLines)

AvailabilityLists == SeqsUpTo(0..MaxDate, MaxAvail)

\* ------------------------------------------------------- pure functions
\* chrono::Weekday::number_from_monday
number_from_monday(d) == (d % 7) + 1

next_weekday(weekday, today) ==
  today + ((weekday + 7 - number_from_monday(today)) % 7)

\* a parser that reads an unrecognized token as today
parse_day_argument_fallback(arg, today) ==
  CASE arg = "today" -> [ok |-> TRUE, date |-> today]
    [] arg = "tomorrow" -> [ok |-> TRUE, date |-> today + 1]
    [] arg = "dayaftertomorrow" -> [ok |-> TRUE, date |-> today + 2]
    [] arg = "monday" -> [ok |-> TRUE, date |-> next_weekday(1, today)]
    [] arg = "tuesday" -> [ok |-> TRUE, date |-> next_weekday(2, today)]
    [] arg = "wednesday" -> [ok |-> TRUE, date |-> next_weekday(3, today)]
    [] arg = "thursday" -> [ok |-> TRUE, date |-> next_weekday(4, today)]
    [] arg = "friday" -> [ok |-> TRUE, date |-> next_weekday(5, today)]
    [] OTHER -> [ok |-> TRUE, date |-> today]

\* parse_day_argument: [ok, date]; ok is FALSE for InvalidDayArgumentError
parse_day_argument(arg, today) ==
  CASE arg = "today" -> [ok |-> TRUE, date |-> today]
    [] arg = "tomorrow" -> [ok |-> TRUE, date |-> today + 1]
    [] arg = "dayaftertomorrow" -> [ok |-> TRUE, date |-> today + 2]
    [] arg = "monday" -> [ok |-> TRUE, date |-> next_weekday(1, today)]
    [] arg = "tuesday" -> [ok |-> TRUE, date |-> next_weekday(2, today)]
    [] arg = "wednesday" -> [ok |-> TRUE, date |-> next_weekday(3, today)]
    [] arg = "thursday" -> [ok |-> TRUE, date |-> next_weekday(4, today)]
    [] arg = "friday" -> [ok |-> TRUE, date |-> next_weekday(5, today)]
    [] OTHER -> [ok |-> FALSE, date |-> NoDate]

\* a rollover that moves the date without recording the correction
default_lookup_silent(date, time, roll_over_time) ==
  IF time > roll_over_time
    THEN [ok |-> TRUE, date |-> date + 1, correction |-> "Same"]
    ELSE [ok |-> TRUE, date |-> date, correction |-> "Same"]

\* the unwrap_or_else closure: no "tag" option given
default_lookup(date, time, roll_over_time) ==
  IF time > roll_over_time
    THEN [ok |-> TRUE, date |-> date + 1, correction |-> "RollOver"]
    ELSE [ok |-> TRUE, date |-> date, correction |-> "Same"]

\* lookup_date and the day_correction in force after lines 153-173
lookup(tag, date, time, roll_over_time) ==
  IF tag # NoTag
    THEN [ok |-> parse_day_argument(tag, date).ok,
          date |-> parse_day_argument(tag, date).date,
          correction |-> "Same"]
    ELSE default_lookup(date, time, roll_over_time)

RECURSIVE insert(_, _)
insert(x, s) ==
  IF s = <<>> THEN <<x>>
  ELSE IF x <= Head(s) THEN <<x>> \o s
  ELSE <<Head(s)>> \o insert(x, Tail(s))

RECURSIVE sort_ascending(_)
sort_ascending(s) ==
  IF s = <<>> THEN <<>> ELSE insert(Head(s), sort_ascending(Tail(s)))

\* the list as the upstream returned it
sort_unsorted(s) == s

\* Vec::sort
sort(s) == sort_ascending(s)

\* into_iter().find(|plan| plan >= &lookup_date)
RECURSIVE find(_, _)
find(s, lookup_date) ==
  IF s = <<>> THEN NoDate
  ELSE IF Head(s) >= lookup_date THEN Head(s)
  ELSE find(Tail(s), lookup_date)

\* a skip check that leaves a rollover correction in place
correct_skipped_keep_rollover(day_correction, plans, lookup_date) ==
  IF plans # lookup_date /\ day_correction = "Same" THEN "DaysSkipped"
  ELSE day_correction

\* lines 193-195
correct_skipped(day_correction, plans, lookup_date) ==
  IF plans # lookup_date THEN "DaysSkipped" ELSE day_correction

weekday_to_string(d) ==
  CASE number_from_monday(d) = 1 -> "Montag"
    [] number_from_monday(d) = 2 -> "Dienstag"
    [] number_from_monday(d) = 3 -> "Mittwoch"
    [] number_from_monday(d) = 4 -> "Donnerstag"
    [] number_from_monday(d) = 5 -> "Freitag"
    [] OTHER -> "Unbekannt"

\* one rendered meal; the joined text of a field is the sequence of these
format_meal(meal) == [name |-> meal.name, price |-> meal.price]

RECURSIVE format_line(_)
format_line(meals) ==
  IF meals = <<>> THEN <<>>
  ELSE IF Head(meals).price # ""
    THEN <<format_meal(Head(meals))>> \o format_line(Tail(meals))
  ELSE format_line(Tail(meals))

RECURSIVE build_fields(_)
build_fields(lines) ==
  IF lines = <<>> THEN <<>>
  ELSE IF Head(lines).meals = <<>> THEN build_fields(Tail(lines))
  ELSE <<[name |-> Head(lines).name, value |-> format_line(Head(lines).meals)]>>
         \o build_fields(Tail(lines))

build_embed(canteen) ==
  [title |-> weekday_to_string(canteen.date), fields |-> build_fields(canteen.lines)]

notice(day_correction) ==
  CASE day_correction = "RollOver" -> "closed, next day"
    [] day_correction = "DaysSkipped" -> "closed that day, next day"
    [] OTHER -> ""

\* ------------------------------------------------------------------ state
VARIABLES
  roll_over_time,  \* TurnOverKey, loaded once at startup
  cpc,             \* position of the command handler: idle/plans/canteen/done
  interaction,     \* the interaction being handled
  now,             \* chrono::Local::now() read by the handler
  lookup_date,     \* local of handle_mensa_command
  day_correction,  \* local of handle_mensa_command
  upstream,        \* what get_available_plans returned, as returned
  plan,            \* local of handle_mensa_command (NoDate: None)
  calls,           \* requests made to the menu API by this handler
  responses,       \* interaction responses created by this handler
  outcome,         \* how the handler ended
  first_ready,     \* Handler.first_ready
  rpc,             \* position of each ready event's handler
  spawned,         \* registration tasks spawned
  cancel,          \* the application CancellationToken
  task,            \* the registration task: none/running/done
  retry,           \* the backon Retry future owned by the task
  fails,           \* publish fails this many times before it succeeds
  succeeded,       \* a publish attempt returned Ok
  log              \* what the registration task logged

cvars ==
  <<cpc, interaction, now, lookup_date, day_correction, upstream, plan, calls,
    responses, outcome>>

rvars == <<first_ready, rpc, spawned, cancel, task, retry, fails, succeeded, log>>

vars == <<roll_over_time, cvars, rvars>>

CommandInit ==
  /\ cpc = "idle"
  /\ interaction = NoInteraction
  /\ now = [date |-> 0, time |-> 0]
  /\ lookup_date = NoDate
  /\ day_correction = "Same"
  /\ upstream = <<>>
  /\ plan = NoDate
  /\ calls = <<>>
  /\ responses = <<>>
  /\ outcome = "-"

\* ------------------------------------------------- the command pipeline
\* create_interaction_response delivers the response
Respond(r) ==
  /\ responses' = Append(responses, r)
  /\ outcome' = "Ok"
  /\ cpc' = "done"

\* the handler returns Err(e), which interaction_create logs
Fail(e) ==
  /\ outcome' = e
  /\ cpc' = "done"
  /\ UNCHANGED responses

\* Handler::interaction_create up to the first request to the menu API
InteractionCreate ==
  /\ cpc = "idle"
  /\ \E i \in Interactions, d \in 0..MaxToday, t \in 0..MaxTime :
       /\ interaction' = i
       /\ now' = [date |-> d, time |-> t]
       /\ upstream' = <<>>
       /\ plan' = NoDate
       /\ responses' = <<>>
       /\ IF i.kind # "command"
            THEN /\ outcome' = "NotACommand"
                 /\ cpc' = "done"
                 /\ calls' = <<>>
                 /\ lookup_date' = NoDate
                 /\ day_correction' = "Same"
          ELSE IF i.name # "mensa"
            THEN /\ outcome' = "UnknownCommand"
                 /\ cpc' = "done"
                 /\ calls' = <<>>
                 /\ lookup_date' = NoDate
                 /\ day_correction' = "Same"
          ELSE IF ~lookup(i.tag, d, t, roll_over_time).ok
            THEN /\ outcome' = "InvalidDayArgument"
                 /\ cpc' = "done"
                 /\ calls' = <<>>
                 /\ lookup_date' = NoDate
                 /\ day_correction' = "Same"
          ELSE /\ outcome' = "-"
               /\ cpc' = "plans"
               /\ calls' = <<"plans">>
               /\ lookup_date' = lookup(i.tag, d, t, roll_over_time).date
               /\ day_correction' = lookup(i.tag, d, t, roll_over_time).correction
  /\ UNCHANGED <<roll_over_time, rvars>>

\* get_available_plans fails: the error is propagated and logged
AvailablePlansErr ==
  /\ cpc = "plans"
  /\ Fail("PlansError")
  /\ UNCHANGED <<roll_over_time, interaction, now, lookup_date, day_correction,
                 upstream, plan, calls, rvars>>

\* get_available_plans returns: lines 176-197
AvailablePlansOk ==
  /\ cpc = "plans"
  /\ \E available_plans \in AvailabilityLists :
       /\ upstream' = available_plans
       /\ plan' = find(sort(available_plans), lookup_date)
       /\ IF plan' = NoDate
            THEN /\ \/ Respond([content |-> "No menu available.", embedded |-> FALSE,
                                title |-> "", fields |-> <<>>])
                    \/ Fail("SendError")
                 /\ UNCHANGED <<day_correction, calls>>
            ELSE /\ day_correction' = correct_skipped(day_correction, plan', lookup_date)
                 /\ calls' = Append(calls, "canteen")
                 /\ cpc' = "canteen"
                 /\ UNCHANGED <<responses, outcome>>
  /\ UNCHANGED <<roll_over_time, interaction, now, lookup_date, rvars>>

\* get_canteen_data fails
CanteenDataErr ==
  /\ cpc = "canteen"
  /\ Fail("CanteenError")
  /\ UNCHANGED <<roll_over_time, interaction, now, lookup_date, day_correction,
                 upstream, plan, calls, rvars>>

\* get_canteen_data returns an empty collection: menu.get(0).unwrap() panics
CanteenDataEmpty ==
  /\ cpc = "canteen"
  /\ Fail("Panic")
  /\ UNCHANGED <<roll_over_time, interaction, now, lookup_date, day_correction,
                 upstream, plan, calls, rvars>>

\* get_canteen_data returns at least one canteen: lines 197-220
CanteenDataOk ==
  /\ cpc = "canteen"
  /\ \/ \E lines \in CanteenLines :
          LET canteen == [date |-> plan, lines |-> lines] IN
            Respond([content |-> notice(day_correction), embedded |-> TRUE,
                     title |-> build_embed(canteen).title,
                     fields |-> build_embed(canteen).fields])
     \/ Fail("SendError")
  /\ UNCHANGED <<roll_over_time, interaction, now, lookup_date, day_correction,
                 upstream, plan, calls, rvars>>

\* Handler::interaction_create returns; what it held is dropped
Return ==
  /\ cpc = "done"
  /\ cpc' = "idle"
  /\ interaction' = NoInteraction
  /\ now' = [date |-> 0, time |-> 0]
  /\ lookup_date' = NoDate
  /\ day_correction' = "Same"
  /\ upstream' = <<>>
  /\ plan' = NoDate
  /\ calls' = <<>>
  /\ responses' = <<>>
  /\ outcome' = "-"
  /\ UNCHANGED <<roll_over_time, rvars>>

CommandNext ==
  \/ InteractionCreate
  \/ Return
  \/ AvailablePlansErr
  \/ AvailablePlansOk
  \/ CanteenDataErr
  \/ CanteenDataEmpty
  \/ CanteenDataOk

\* ------------------------------------------ command registration (retry)
\* ExponentialBuilder::default(): min_delay 1s, factor 2, max_times 3 (the
\* max_delay of 60s is never reached within three retries)
DefaultMinDelay == 1
DefaultFactor == 2
DefaultMaxTimes == 3

NoDelay == 0

\* the backoff iterator: the delay before retry number retries + 1, if any
backoff_next(retries) ==
  IF retries < DefaultMaxTimes
    THEN DefaultMinDelay * (DefaultFactor ^ retries)
    ELSE NoDelay

NewRetry ==
  [state |-> "Idle", attempts |-> 0, retries |-> 0, response |-> "none",
   delay |-> NoDelay, expired |-> FALSE]

\* a fresh call of register_slash_commands, polled once: the request is sent
start_attempt(r) ==
  [r EXCEPT !.state = "Polling", !.attempts = r.attempts + 1,
            !.response = "none", !.delay = NoDelay, !.expired = FALSE]

\* one poll of the Retry future: [ready, result, retry]
retry_poll(r) ==
  CASE r.state = "Idle" ->
         [ready |-> FALSE, result |-> "-", retry |-> start_attempt(r)]
    [] r.state = "Polling" /\ r.response = "none" ->
         [ready |-> FALSE, result |-> "-", retry |-> r]
    [] r.state = "Polling" /\ r.response = "ok" ->
         [ready |-> TRUE, result |-> "Ok", retry |-> r]
    [] r.state = "Polling" /\ r.response = "err" ->
         IF backoff_next(r.retries) = NoDelay
           THEN [ready |-> TRUE, result |-> "Err", retry |-> r]
           ELSE [ready |-> FALSE, result |-> "-",
                 retry |-> [r EXCEPT !.state = "Sleeping",
                                     !.retries = r.retries + 1,
                                     !.response = "none",
                                     !.delay = backoff_next(r.retries),
                                     !.expired = FALSE]]
    [] r.state = "Sleeping" /\ ~r.expired ->
         [ready |-> FALSE, result |-> "-", retry |-> r]
    [] OTHER ->
         [ready |-> FALSE, result |-> "-", retry |-> start_attempt(r)]

\* a guard that lets every caller through
compare_exchange_always(flag, current, new) == [ok |-> TRUE, value |-> new]

\* AtomicBool::compare_exchange: [ok, value the flag holds afterwards]
compare_exchange(flag, current, new) ==
  IF flag = current THEN [ok |-> TRUE, value |-> new]
  ELSE [ok |-> FALSE, value |-> flag]

RegistrarInit ==
  /\ first_ready = TRUE
  /\ rpc = [h \in 1..MaxReady |-> "pending"]
  /\ spawned = 0
  /\ cancel = FALSE
  /\ task = "none"
  /\ retry = NewRetry
  /\ succeeded = FALSE
  /\ log = {}

\* Handler::ready up to its first suspension (ctx.data.read().await)
Ready(h) ==
  /\ rpc[h] = "pending"
  /\ first_ready' = compare_exchange(first_ready, TRUE, FALSE).value
  /\ rpc' = [rpc EXCEPT ![h] =
               IF compare_exchange(first_ready, TRUE, FALSE).ok
                 THEN "register" ELSE "done"]
  /\ UNCHANGED <<roll_over_time, cvars, spawned, cancel, task, retry, fails,
                 succeeded, log>>

\* the rest of Handler::ready: commands::register spawns the task
Register(h) ==
  /\ rpc[h] = "register"
  /\ rpc' = [rpc EXCEPT ![h] = "done"]
  /\ spawned' = spawned + 1
  /\ task' = IF task = "none" THEN "running" ELSE task
  /\ UNCHANGED <<roll_over_time, cvars, first_ready, cancel, retry, fails,
                 succeeded, log>>

\* main: cancel_token.cancel() after ctrl-c
Cancel ==
  /\ ~cancel
  /\ cancel' = TRUE
  /\ UNCHANGED <<roll_over_time, cvars, first_ready, rpc, spawned, task, retry,
                 fails, succeeded, log>>

\* the platform answers the request in flight
PublishReturns ==
  /\ task = "running"
  /\ retry.state = "Polling"
  /\ retry.response = "none"
  /\ retry' = [retry EXCEPT !.response =
                 IF retry.attempts > fails THEN "ok" ELSE "err"]
  /\ succeeded' = (succeeded \/ retry.attempts > fails)
  /\ UNCHANGED <<roll_over_time, cvars, first_ready, rpc, spawned, cancel, task,
                 fails, log>>

\* the backoff sleep runs out
SleepExpires ==
  /\ task = "running"
  /\ retry.state = "Sleeping"
  /\ ~retry.expired
  /\ retry' = [retry EXCEPT !.expired = TRUE]
  /\ UNCHANGED <<roll_over_time, cvars, first_ready, rpc, spawned, cancel, task,
                 fails, succeeded, log>>

\* the task has something to look at
Woken ==
  \/ retry.state = "Idle"
  \/ retry.response # "none"
  \/ retry.expired
  \/ cancel

\* a poll of the task in which select! looks at cancel.cancelled() first
PollCancelFirst ==
  /\ task = "running"
  /\ cancel
  /\ task' = "done"
  /\ log' = log \cup {"cancelled"}
  /\ UNCHANGED <<roll_over_time, cvars, first_ready, rpc, spawned, cancel, retry,
                 fails, succeeded>>

\* a poll of the task in which select! looks at the retry future first
PollRetryFirst ==
  /\ task = "running"
  /\ Woken
  /\ retry' = retry_poll(retry).retry
  /\ IF retry_poll(retry).ready
       THEN /\ task' = "done"
            /\ log' = log \cup {"registered"}
       ELSE IF cancel
         THEN /\ task' = "done"
              /\ log' = log \cup {"cancelled"}
         ELSE UNCHANGED <<task, log>>
  /\ UNCHANGED <<roll_over_time, cvars, first_ready, rpc, spawned, cancel, fails,
                 succeeded>>

RegistrarNext ==
  \/ \E h \in 1..MaxReady : Ready(h)
  \/ \E h \in 1..MaxReady : Register(h)
  \/ Cancel
  \/ PublishReturns
  \/ SleepExpires
  \/ PollCancelFirst
  \/ PollRetryFirst

\* --------------------------------------------------------- specifications
Init ==
  /\ roll_over_time \in 0..MaxTime
  /\ fails \in 0..MaxFails
  /\ CommandInit
  /\ RegistrarInit

Next == CommandNext \/ RegistrarNext

\* the process as a whole
Spec == Init /\ [][Next]_vars

CommandSpecInit ==
  /\ roll_over_time \in 0..MaxTime
  /\ fails = 0
  /\ CommandInit
  /\ RegistrarInit

\* the command pipeline on its own
SpecCommand == CommandSpecInit /\ [][CommandNext]_vars

RegistrarSpecInit ==
  /\ roll_over_time = 0
  /\ fails \in 0..MaxFails
  /\ CommandInit
  /\ RegistrarInit

\* the registration on its own
SpecRegistrar == RegistrarSpecInit /\ [][RegistrarNext]_vars

\* ----------------------------------------------------------------- claims
\* the handler has sorted and searched the availability list
Resolved ==
  \/ cpc = "canteen"
  \/ cpc = "done" /\ calls # <<>> /\ outcome # "PlansError"

\* a date was selected (the resolution yields a date)
Selected == Resolved /\ plan # NoDate

\* no day token, past the rollover time, and the selected date is not today + 1
RolledOverAndSkipped ==
  /\ Selected
  /\ interaction.tag = NoTag
  /\ now.time > roll_over_time
  /\ plan # now.date + 1

\* the correction the user is told: the local, and the notice of the response
Attached(c) ==
  /\ day_correction = c
  /\ \A i \in DOMAIN responses : responses[i].content = notice(c)

\* C1 as stated: when the rollover branch fired and the selected date differs
\* from today + 1, the correction attached to the response stays RollOver.
C1_RolloverPrecedence == RolledOverAndSkipped => Attached("RollOver")

\* C1 amended: when the rollover branch fired, the correction is DaysSkipped
\* if the selected date differs from today + 1 and RollOver only if the
\* selected date is today + 1; the two are never reported together.
C1_SkipPrecedence ==
  (Selected /\ interaction.tag = NoTag /\ now.time > roll_over_time) =>
    IF plan # now.date + 1 THEN Attached("DaysSkipped") ELSE Attached("RollOver")

C1_Witness ==
  /\ RolledOverAndSkipped
  /\ cpc = "done"
  /\ Len(responses) = 1
  /\ responses[1].embedded

\* the available dates that are on or after the baseline
OnOrAfter == {upstream[i] : i \in DOMAIN upstream} \cap {d \in 0..(MaxDate + 1) : d >= lookup_date}

\* C2: the selected date is the minimum of the available dates >= baseline,
\* whatever the order of the list; no date is selected (and the answer is "No
\* menu available.", with no menu fetched) iff no available date is >= baseline.
C2_SelectsMinimum ==
  Resolved =>
    /\ (plan = NoDate) <=> (OnOrAfter = {})
    /\ plan # NoDate => (plan \in OnOrAfter /\ \A d \in OnOrAfter : plan <= d)
    /\ plan = NoDate =>
         /\ calls = <<"plans">>
         /\ \A i \in DOMAIN responses : responses[i].content = "No menu available."
    /\ plan # NoDate => calls = <<"plans", "canteen">>

C2_Witness ==
  /\ Resolved
  /\ Len(upstream) = 2
  /\ upstream[1] > upstream[2]
  /\ upstream[2] >= lookup_date
  /\ plan = upstream[2]

\* the date literally requested or naively defaulted
Naive ==
  IF interaction.tag # NoTag
    THEN parse_day_argument(interaction.tag, now.date).date
    ELSE now.date

\* C3: when a date is selected, the correction is Same iff the selected date
\* is the naive date; an explicit request is answered with Same when its date
\* is available and with DaysSkipped when a later one is, never with RollOver.
C3_CorrectionIffDiffers ==
  Selected =>
    /\ \E c \in {"Same", "RollOver", "DaysSkipped"} : Attached(c)
    /\ (day_correction = "Same") <=> (plan = Naive)
    /\ interaction.tag # NoTag =>
         /\ plan = Naive => Attached("Same")
         /\ plan > Naive => Attached("DaysSkipped")
         /\ day_correction # "RollOver"

C3_Witness ==
  /\ Selected
  /\ interaction.tag # NoTag
  /\ now.time > roll_over_time
  /\ plan = Naive
  /\ Len(responses) = 1
  /\ responses[1].content = ""

\* C4 as stated: every command handled ends with exactly one response sent.
C4_ExactlyOneResponse ==
  (cpc = "done" /\ interaction.kind = "command") => Len(responses) = 1

\* a mensa command whose day token is not a recognized one
InvalidToken ==
  /\ interaction.kind = "command"
  /\ interaction.name = "mensa"
  /\ interaction.tag \notin DayTokens \cup {NoTag}

\* C5: a mensa command with an unrecognized day token ends with
\* InvalidDayArgument and makes no request to the menu API.
C5_InvalidDayNoCall ==
  InvalidToken => (cpc = "done" /\ outcome = "InvalidDayArgument" /\ calls = <<>>)

C5_Witness == InvalidToken /\ outcome = "InvalidDayArgument"

\* C8 as stated: no meal with an empty price is rendered, and no field is
\* emitted for a line that has no meal left to render.
C8_NoEmptyLine ==
  \A i \in DOMAIN responses : \A f \in DOMAIN responses[i].fields :
    /\ \A m \in DOMAIN responses[i].fields[f].value :
         responses[i].fields[f].value[m].price # ""
    /\ responses[i].fields[f].value # <<>>

\* C6 as stated, for a run that ended without cancellation: publish was
\* called once more than it fails, that call succeeded and success is logged.
C6_RetriesUntilSuccess ==
  (task = "done" /\ ~cancel) =>
    (retry.attempts = fails + 1 /\ succeeded /\ "registered" \in log)

\* C7 as stated: the success log is emitted only after a publish attempt
\* returned success.
C7_SuccessLogOnlyAfterSuccess == ("registered" \in log) => succeeded

\* C9 as stated: no publish attempt is started once the cancellation signal
\* has fired or once an attempt has succeeded.
C9_NoAttemptAfterCancel ==
  [][retry'.attempts > retry.attempts => (~cancel /\ ~succeeded)]_vars

\* C10: over any interleaving of ready events at most one passes the
\* compare-and-set guard, and the registration task is spawned at most once.
C10_RegisteredOnce ==
  /\ spawned + Cardinality({h \in 1..MaxReady : rpc[h] = "register"}) <= 1
  /\ (\E h \in 1..MaxReady : rpc[h] # "pending") => ~first_ready

C10_Witness == spawned = 1 /\ \A h \in 1..MaxReady : rpc[h] = "done"

====
